---- MODULE Spec2Model ----
(***************************************************************************)
(* The build controller of internal/engine/buildcontroller.go: admission   *)
(* control (needsBuild), the subscriber loop (OnChange) with its detached  *)
(* build task, and the derivation of the per-target build states           *)
(* (buildStateSet).                                                        *)
(*                                                                         *)
(* Two specifications are defined:                                         *)
(*   Spec          the controller, the store it talks to and the build     *)
(*                 tasks it launches (FairSpec adds the scheduling         *)
(*                 fairness of goroutines, OnChangeFairSpec that of        *)
(*                 OnChange alone);                                        *)
(*   AssembleSpec  buildStateSet applied to bounded inputs.                *)
(***************************************************************************)
EXTENDS Integers, Sequences, FiniteSets, TLC

\* ------------------------------------------------------------------ bounds
\* number of builds one controller admits in a run
MaxBuilds == 2
\* largest number of build slots the store is configured with
MaxBuildSlots == 2
\* log lines the build engine writes during one BuildAndDeploy call
MaxEngineLogs == 1
\* number of distinct file paths that may have pending changes
MaxFiles == 3
\* latest timestamp (0 is the zero time.Time)
MaxTime == 2
\* pending file changes in one manifest state, over all its targets
MaxPending == 2

\* ------------------------------------------------------- strings as bytes
\* A Go string is a sequence of bytes; sort.Strings orders strings bytewise.
FileNames == << <<122>>, <<97>>, <<97, 98>>, <<109>>, <<97, 97>> >>

Files == {FileNames[i] : i \in 1..MaxFiles}

RECURSIVE StringLess(_, _)
StringLess(a, b) ==
    IF b = <<>> THEN FALSE
    ELSE IF a = <<>> THEN TRUE
    ELSE IF Head(a) # Head(b) THEN Head(a) < Head(b)
    ELSE StringLess(Tail(a), Tail(b))

RECURSIVE InsertSorted(_, _)
InsertSorted(x, s) ==
    IF s = <<>> THEN <<x>>
    ELSE IF StringLess(Head(s), x) THEN <<Head(s)>> \o InsertSorted(x, Tail(s))
    ELSE <<x>> \o s

RECURSIVE InsertionSort(_)
InsertionSort(s) ==
    IF s = <<>> THEN <<>> ELSE InsertSorted(Head(s), InsertionSort(Tail(s)))

SortStringsSkipped(s) == s

\* sort.Strings(filesChanged)
SortStrings(s) == InsertionSort(s)

RECURSIVE Digits(_)
Digits(n) == IF n < 10 THEN <<n>> ELSE Append(Digits(n \div 10), n % 10)

\* fmt.Sprintf("build:%d", buildCount)
SpanIDForBuildLog(buildCount) == <<"build:">> \o Digits(buildCount)

RECURSIVE SeqToSet(_)
SeqToSet(s) == IF s = <<>> THEN {} ELSE {Head(s)} \cup SeqToSet(Tail(s))

\* all orders in which a Go map with the keys S may be ranged over
Orders(S) == {p \in [1..Cardinality(S) -> S] : \A i, j \in 1..Cardinality(S) : i # j => p[i] # p[j]}

\* ------------------------------------------------------ targets, manifests
TargetTypeImage == "image"
TargetTypeDockerCompose == "docker-compose"
TargetTypeK8s == "k8s"
TargetTypeLocal == "local"

NoError == "nil"

TargetID(type, name) == [Type |-> type, Name |-> name]

\* a target spec: its ID() and the outcome of its Validate()
TargetSpec(type, name, validateErr) == [ID |-> TargetID(type, name), ValidateErr |-> validateErr]

IsDC(manifest) == manifest.Deploy = TargetTypeDockerCompose
IsK8s(manifest) == manifest.Deploy = TargetTypeK8s
IsLocal(manifest) == manifest.Deploy = TargetTypeLocal

DeployTarget(manifest) == TargetSpec(manifest.Deploy, manifest.Name, manifest.DeployValidateErr)

\* Extract target specs from a manifest for BuildAndDeploy.
buildTargets(manifest) ==
    manifest.ImageTargets \o
        (IF IsDC(manifest) THEN <<DeployTarget(manifest)>>
         ELSE IF IsK8s(manifest) THEN <<DeployTarget(manifest)>>
         ELSE IF IsLocal(manifest) THEN <<DeployTarget(manifest)>>
         ELSE <<>>)

\* ------------------------------------------------------------ build states
EmptyStatus == [PendingFileChanges |-> <<>>, LastSuccessfulResult |-> "nil"]

\* ms.BuildStatus(id)
BuildStatus(ms, id) ==
    IF id \in DOMAIN ms.BuildStatuses THEN ms.BuildStatuses[id] ELSE EmptyStatus

\* the zero time.Time
NoTime == 0

\* ms.LastBuild().Empty(): the record of the last finished build has the zero start time
LastBuildEmpty(ms) == ms.LastBuildStartTime = NoTime

\* ts.After(u)
After(ts, u) == ts > u

NewBuildState(result, files) ==
    [LastSuccessfulResult |-> result,
     FilesChanged |-> files,
     RunningContainers |-> {},
     RunningContainerError |-> NoError,
     NeedsForceUpdate |-> FALSE]

WithRunningContainerError(bs, err) == [bs EXCEPT !.RunningContainerError = err]
WithRunningContainers(bs, cInfos) == [bs EXCEPT !.RunningContainers = cInfos]
WithNeedsForceUpdate(bs, b) == [bs EXCEPT !.NeedsForceUpdate = b]

\* store.RunningContainersForTargetForOnePod(iTarget, ms.K8sRuntimeState()): (cInfos, err)
RunningContainersForTargetForOnePod(iTarget, ms) == ms.K8sRuntime[iTarget.ID.Name]

\* store.RunningContainersForDC(ms.DCRuntimeState())
RunningContainersForDC(ms) == ms.DCRuntime

\* the keys of a pending-changes map in the order the range statement yields
\* them, `order` being the iteration order over the file paths
RangeKeys(pending, order) ==
    LET Rec[i \in 0..Len(order)] ==
            IF i = 0 THEN <<>>
            ELSE IF order[i] \in DOMAIN pending THEN Append(Rec[i - 1], order[i])
            ELSE Rec[i - 1]
    IN Rec[Len(order)]

RECURSIVE RangePendingFileChangesLastWins(_, _, _, _)
RangePendingFileChangesLastWins(keys, pending, ms, acc) ==
    IF keys = <<>> THEN acc
    ELSE LET file == Head(keys)
             ts == pending[file]
         IN RangePendingFileChangesLastWins(Tail(keys), pending, ms,
                [filesChanged |-> Append(acc.filesChanged, file),
                 any |-> LastBuildEmpty(ms) \/ After(ts, ms.LastBuildStartTime)])

\* lines 197-203: the range over status.PendingFileChanges, from the state
\* acc = [filesChanged, any] of the two variables it assigns
RECURSIVE RangePendingFileChanges(_, _, _, _)
RangePendingFileChanges(keys, pending, ms, acc) ==
    IF keys = <<>> THEN acc
    ELSE LET file == Head(keys)
             ts == pending[file]
         IN RangePendingFileChanges(Tail(keys), pending, ms,
                [filesChanged |-> Append(acc.filesChanged, file),
                 any |-> IF LastBuildEmpty(ms) \/ After(ts, ms.LastBuildStartTime)
                         THEN TRUE ELSE acc.any])

AttachRunningContainersUnguarded(manifest, spec, ms, buildState) ==
    IF spec.ID.Type = TargetTypeImage
    THEN LET afterK8s ==
                 IF IsK8s(manifest)
                 THEN LET r == RunningContainersForTargetForOnePod(spec, ms)
                      IN IF r.err # NoError
                         THEN WithRunningContainerError(buildState, r.err)
                         ELSE WithRunningContainers(buildState, r.cInfos)
                 ELSE buildState
         IN IF IsDC(manifest)
            THEN WithRunningContainers(afterK8s, RunningContainersForDC(ms))
            ELSE afterK8s
    ELSE buildState

AttachRunningContainersDroppingError(manifest, spec, ms, buildState) ==
    IF ~ms.NeedsRebuildFromCrash
    THEN [AttachRunningContainersUnguarded(manifest, spec, ms, buildState)
             EXCEPT !.RunningContainerError = NoError]
    ELSE buildState

\* lines 217-233: pass along the containers when they can be updated in place
AttachRunningContainers(manifest, spec, ms, buildState) ==
    IF ~ms.NeedsRebuildFromCrash
    THEN AttachRunningContainersUnguarded(manifest, spec, ms, buildState)
    ELSE buildState

RECURSIVE buildStateSetLoopNoTypeFilter(_, _, _, _, _)
buildStateSetLoopNoTypeFilter(manifest, specs, ms, order, acc) ==
    IF specs = <<>> THEN acc
    ELSE LET spec == Head(specs)
             id == spec.ID
             status == BuildStatus(ms, id)
             ranged == RangePendingFileChanges(
                           RangeKeys(status.PendingFileChanges, order),
                           status.PendingFileChanges, ms,
                           [filesChanged |-> <<>>, any |-> acc.any])
             filesChanged == SortStrings(ranged.filesChanged)
             buildState == AttachRunningContainers(manifest, spec, ms,
                               NewBuildState(status.LastSuccessfulResult, filesChanged))
         IN buildStateSetLoopNoTypeFilter(manifest, Tail(specs), ms, order,
                [result |-> [k \in DOMAIN acc.result \cup {id} |->
                                IF k = id THEN buildState ELSE acc.result[k]],
                 any |-> ranged.any])

\* lines 190-235: the loop over specs, from the state acc = [result, any]
RECURSIVE buildStateSetLoop(_, _, _, _, _)
buildStateSetLoop(manifest, specs, ms, order, acc) ==
    IF specs = <<>> THEN acc
    ELSE LET spec == Head(specs)
             id == spec.ID
         IN IF id.Type # TargetTypeImage /\ id.Type # TargetTypeDockerCompose
                /\ id.Type # TargetTypeLocal
            THEN buildStateSetLoop(manifest, Tail(specs), ms, order, acc)
            ELSE LET status == BuildStatus(ms, id)
                     ranged == RangePendingFileChanges(
                                   RangeKeys(status.PendingFileChanges, order),
                                   status.PendingFileChanges, ms,
                                   [filesChanged |-> <<>>, any |-> acc.any])
                     filesChanged == SortStrings(ranged.filesChanged)
                     buildState == AttachRunningContainers(manifest, spec, ms,
                                       NewBuildState(status.LastSuccessfulResult, filesChanged))
                 IN buildStateSetLoop(manifest, Tail(specs), ms, order,
                        [result |-> [k \in DOMAIN acc.result \cup {id} |->
                                        IF k = id THEN buildState ELSE acc.result[k]],
                         any |-> ranged.any])

ForceUpdateIgnoringCrash(ms, looped) ==
    IF ~looped.any
    THEN [k \in DOMAIN looped.result |-> WithNeedsForceUpdate(looped.result[k], TRUE)]
    ELSE looped.result

ForceUpdateNotStored(ms, looped) == looped.result

\* lines 244-250: if no files changed across the entire state set, this is a force update
ForceUpdate(ms, looped) ==
    IF ~ms.NeedsRebuildFromCrash /\ ~looped.any
    THEN [k \in DOMAIN looped.result |-> WithNeedsForceUpdate(looped.result[k], TRUE)]
    ELSE looped.result

buildStateSetChangedWhenNeverBuilt(manifest, specs, ms, order) ==
    ForceUpdate(ms, buildStateSetLoop(manifest, specs, ms, order,
                        [result |-> <<>>, any |-> LastBuildEmpty(ms)]))

\* Extract a set of build states from a manifest for BuildAndDeploy.
buildStateSet(manifest, specs, ms, order) ==
    ForceUpdate(ms, buildStateSetLoop(manifest, specs, ms, order,
                        [result |-> <<>>, any |-> FALSE]))

\* buildStateSet.FilesChanged(): the files of all build states, sorted, each once
RECURSIVE SortedSetToSeq(_)
SortedSetToSeq(S) ==
    IF S = {} THEN <<>>
    ELSE LET least == CHOOSE x \in S : \A y \in S \ {x} : StringLess(x, y)
         IN <<least>> \o SortedSetToSeq(S \ {least})

FilesChanged(set) ==
    SortedSetToSeq(UNION {SeqToSet(set[k].FilesChanged) : k \in DOMAIN set})

\* ------------------------------------------------- the store's engine state
\* the nil *store.ManifestTarget
Nil == [Manifest |-> "nil"]

\* A manifest state with no build history and nothing pending.
NewManifestState(manifest) ==
    [StartedFirstBuild |-> FALSE,
     LastBuildStartTime |-> NoTime,
     NeedsRebuildFromCrash |-> FALSE,
     ConfigFilesThatCausedChange |-> <<>>,
     BuildStatuses |-> <<>>,
     K8sRuntime |-> [n \in {manifest.ImageTargets[i].ID.Name : i \in DOMAIN manifest.ImageTargets}
                        |-> [cInfos |-> {}, err |-> NoError]],
     DCRuntime |-> {}]

\* a Kubernetes manifest with one image, never built
ManifestFE ==
    [Name |-> "fe",
     ImageTargets |-> <<TargetSpec(TargetTypeImage, "fe-img", NoError)>>,
     Deploy |-> TargetTypeK8s,
     DeployValidateErr |-> NoError]

\* a docker-compose manifest: its second image and its deploy target fail Validate
ManifestBad ==
    [Name |-> "bad",
     ImageTargets |-> <<TargetSpec(TargetTypeImage, "bad-a", NoError),
                        TargetSpec(TargetTypeImage, "bad-b", "bad-b is invalid")>>,
     Deploy |-> TargetTypeDockerCompose,
     DeployValidateErr |-> "bad is invalid"]

\* a local manifest without images, built before
ManifestLocal ==
    [Name |-> "loc",
     ImageTargets |-> <<>>,
     Deploy |-> TargetTypeLocal,
     DeployValidateErr |-> NoError]

\* the (manifest, state, reason) triples the selection oracle may hand out
Candidates ==
    {[Manifest |-> ManifestFE,
      State |-> NewManifestState(ManifestFE),
      Reason |-> "initial"],
     [Manifest |-> ManifestBad,
      State |-> [NewManifestState(ManifestBad) EXCEPT
                    !.StartedFirstBuild = TRUE,
                    !.LastBuildStartTime = 1,
                    !.BuildStatuses =
                        [id \in {TargetID(TargetTypeImage, "bad-a")} |->
                            [PendingFileChanges |-> [f \in {FileNames[1], FileNames[2]} |-> 2],
                             LastSuccessfulResult |-> "nil"]]],
      Reason |-> "changed files"],
     [Manifest |-> ManifestLocal,
      State |-> [NewManifestState(ManifestLocal) EXCEPT
                    !.StartedFirstBuild = TRUE,
                    !.LastBuildStartTime = 1],
      Reason |-> "triggered manually"]}

\* state.AvailableBuildSlots()
AvailableBuildSlots(state) == state.MaxParallelUpdates - Cardinality(state.CurrentlyBuilding)

\* buildcontrol.NextTargetToBuild(state): what the selection oracle may answer on
\* an engine state; it hands out no more than MaxBuilds builds in one run
NextTargetToBuild(state) ==
    IF state.StartedBuildCount >= MaxBuilds THEN {Nil} ELSE Candidates \cup {Nil}

\* --------------------------------------------------------------- variables
VARIABLES
    buildsStartedCount,   \* BuildController.buildsStartedCount
    disabledForTesting,   \* BuildController.disabledForTesting
    pc,                   \* where the OnChange call is: "idle" when none is running
    entry,                \* OnChange's local: the buildEntry needsBuild returned
    ok,                   \* OnChange's local: whether needsBuild admitted a build
    mt,                   \* needsBuild's local: what NextTargetToBuild answered, if asked
    rlocked,              \* whether the controller holds the store's read lock
    engineState,          \* the store's EngineState
    dispatched,           \* per span ID: the actions carrying it given to st.Dispatch, in order
    queue,                \* the dispatched actions the store has yet to apply, in order
    tasks,                \* the build goroutines launched, in launch order
    asm                   \* input and output of one buildStateSet call (AssembleSpec)

vars == <<buildsStartedCount, disabledForTesting, pc, entry, ok, mt, rlocked,
          engineState, dispatched, queue, tasks, asm>>

controller == <<buildsStartedCount, disabledForTesting, pc, entry, ok, mt, rlocked>>

\* ----------------------------------------------------------- needsBuild
EmptyEntry ==
    [name |-> "", targets |-> <<>>, buildStateSet |-> <<>>, filesChanged |-> <<>>,
     buildReason |-> "", firstBuild |-> FALSE, spanID |-> <<>>]

\* lines 59-76: the admission itself, count being the incremented counter
Admit(count, target, order) ==
    LET ms == target.State
        manifest == target.Manifest
        firstBuild == ~ms.StartedFirstBuild
        buildReason == target.Reason
        targets == buildTargets(manifest)
        bss == buildStateSet(manifest, targets, ms, order)
    IN [entry |-> [name |-> manifest.Name,
                   targets |-> targets,
                   firstBuild |-> firstBuild,
                   buildReason |-> buildReason,
                   buildStateSet |-> bss,
                   filesChanged |-> ms.ConfigFilesThatCausedChange \o FilesChanged(bss),
                   spanID |-> SpanIDForBuildLog(count)],
        ok |-> TRUE,
        count |-> count,
        mt |-> target]

\* the oracle was not asked: needsBuild returned before line 54
NotAsked == [Manifest |-> "not asked"]

Decline(count, answer) == [entry |-> EmptyEntry, ok |-> FALSE, count |-> count, mt |-> answer]

needsBuildNoCountGuard(count, st, answer, order) ==
    IF AvailableBuildSlots(st) < 1 THEN Decline(count, NotAsked)
    ELSE IF answer = Nil THEN Decline(count, answer)
    ELSE Admit(count + 1, answer, order)

needsBuildNoSlotGuard(count, st, answer, order) ==
    IF count # st.StartedBuildCount THEN Decline(count, NotAsked)
    ELSE IF answer = Nil THEN Decline(count, answer)
    ELSE Admit(count + 1, answer, order)

needsBuildCountsEarly(count, st, answer, order) ==
    IF count # st.StartedBuildCount THEN Decline(count + 1, NotAsked)
    ELSE IF AvailableBuildSlots(st) < 1 THEN Decline(count + 1, NotAsked)
    ELSE IF answer = Nil THEN Decline(count + 1, answer)
    ELSE Admit(count + 1, answer, order)

needsBuildSpanBeforeIncrement(count, st, answer, order) ==
    IF count # st.StartedBuildCount THEN Decline(count, NotAsked)
    ELSE IF AvailableBuildSlots(st) < 1 THEN Decline(count, NotAsked)
    ELSE IF answer = Nil THEN Decline(count, answer)
    ELSE [Admit(count + 1, answer, order) EXCEPT !.entry.spanID = SpanIDForBuildLog(count)]

\* needsBuild with c.buildsStartedCount = count, on the engine state st it reads
\* under the read lock, answer being what NextTargetToBuild(st) returns when it
\* is called: the entry, ok, and the counter it leaves behind
needsBuild(count, st, answer, order) ==
    IF count # st.StartedBuildCount THEN Decline(count, NotAsked)
    ELSE IF AvailableBuildSlots(st) < 1 THEN Decline(count, NotAsked)
    ELSE IF answer = Nil THEN Decline(count, answer)
    ELSE Admit(count + 1, answer, order)

\* ------------------------------------------------------ dispatched actions
BuildStartedAction(e) ==
    [type |-> "BuildStarted", ManifestName |-> e.name, FilesChanged |-> e.filesChanged,
     Reason |-> e.buildReason, SpanID |-> e.spanID]

\* store.NewLogAction(manifestName, spanID, level, fields, p)
NewLogAction(manifestName, spanID, p) ==
    [type |-> "LogWritten", ManifestName |-> manifestName, SpanID |-> spanID, Bytes |-> p]

\* buildcontrol.NewBuildCompleteAction(name, spanID, result, err)
NewBuildCompleteAction(name, spanID, result, err) ==
    [type |-> "BuildComplete", ManifestName |-> name, SpanID |-> spanID,
     Result |-> result, Error |-> err]

\* st.Dispatch(a): the action is recorded under its span ID and handed to the
\* store. A LogWritten action changes nothing of the engine state modelled
\* here, so the store's queue leaves it out.
Dispatch(a) ==
    /\ dispatched' =
           [s \in DOMAIN dispatched \cup {a.SpanID} |->
               IF s \in DOMAIN dispatched
               THEN (IF s = a.SpanID THEN Append(dispatched[s], a) ELSE dispatched[s])
               ELSE <<a>>]
    /\ queue' = IF a.type = "LogWritten" THEN queue ELSE Append(queue, a)

\* BuildLogActionWriter.Write: every write of the build's logger is dispatched
Write(w, p) == Dispatch(NewLogAction(w.manifestName, w.spanID, p))

\* ----------------------------------------------------------- the build task
Delimiter == "U+2022"

\* ospath.FormatFileChangeList(changedFiles)
FormatFileChangeList(changedFiles) == <<"FormatFileChangeList", changedFiles>>

logBuildEntryIgnoringFirstBuild(e) ==
    IF Len(e.filesChanged) > 0
    THEN <<"%d %s Changed: %s %s %s", Len(e.filesChanged),
           IF Len(e.filesChanged) > 1 THEN "Files" ELSE "File",
           FormatFileChangeList(e.filesChanged), Delimiter, e.name>>
    ELSE <<"%s %s %s", e.buildReason, Delimiter, e.name>>

\* the line logBuildEntry writes with l.Infof: the format and its arguments
logBuildEntry(e) ==
    IF e.firstBuild
    THEN <<"Initial Build %s %s", Delimiter, e.name>>
    ELSE IF Len(e.filesChanged) > 0
         THEN <<"%d %s Changed: %s %s %s", Len(e.filesChanged),
                IF Len(e.filesChanged) > 1 THEN "Files" ELSE "File",
                FormatFileChangeList(e.filesChanged), Delimiter, e.name>>
         ELSE <<"%s %s %s", e.buildReason, Delimiter, e.name>>

EmptyResultSet == {}

\* lines 118-123: the validation loop over targets; validated lists the targets
\* whose Validate was called, err is the error the loop returned with, if any
RECURSIVE ValidateFrom(_, _)
ValidateFrom(targets, validated) ==
    IF targets = <<>> THEN [validated |-> validated, err |-> NoError]
    ELSE LET target == Head(targets)
             err == target.ValidateErr
         IN IF err # NoError
            THEN [validated |-> Append(validated, target.ID), err |-> err]
            ELSE ValidateFrom(Tail(targets), Append(validated, target.ID))

RECURSIVE ValidateAllFrom(_, _, _)
ValidateAllFrom(targets, validated, lastErr) ==
    IF targets = <<>> THEN [validated |-> validated, err |-> lastErr]
    ELSE LET target == Head(targets)
         IN ValidateAllFrom(Tail(targets), Append(validated, target.ID),
                IF target.ValidateErr # NoError THEN target.ValidateErr ELSE lastErr)

ValidateTargetsNoEarlyReturn(targets) == ValidateAllFrom(targets, <<>>, NoError)

ValidateTargets(targets) == ValidateFrom(targets, <<>>)

\* the build goroutine of line 100, with what it has called so far
NewTask(e) ==
    [pc |-> "log", entry |-> e, validated |-> <<>>, engineCalls |-> 0, engineLogs |-> 0]

\* what BuildAndDeploy may return for the targets: every target built, or an error
EngineOutcomes(targets) ==
    {[result |-> {targets[i].ID : i \in DOMAIN targets}, err |-> NoError],
     [result |-> EmptyResultSet, err |-> "build failed"]}

\* line 109: c.logBuildEntry(ctx, entry), its one line going through actionWriter
TaskLogBuildEntry(k) ==
    /\ k \in DOMAIN tasks
    /\ tasks[k].pc = "log"
    /\ Write([manifestName |-> tasks[k].entry.name, spanID |-> tasks[k].entry.spanID],
             logBuildEntry(tasks[k].entry))
    /\ tasks' = [tasks EXCEPT ![k].pc = "buildAndDeploy"]
    /\ UNCHANGED <<controller, engineState, asm>>

DispatchBuildCompleteOnlyOnSuccess(k, result, err) ==
    IF err = NoError
    THEN Dispatch(NewBuildCompleteAction(tasks[k].entry.name, tasks[k].entry.spanID,
                                         result, err))
    ELSE UNCHANGED <<dispatched, queue>>

\* line 112: st.Dispatch(buildcontrol.NewBuildCompleteAction(entry.name, entry.spanID, result, err))
DispatchBuildComplete(k, result, err) ==
    Dispatch(NewBuildCompleteAction(tasks[k].entry.name, tasks[k].entry.spanID,
                                    result, err))

buildAndDeployIgnoringValidation(targets) ==
    [ValidateTargets(targets) EXCEPT !.err = NoError]

\* lines 116-123: buildAndDeploy up to its call of the build engine: the targets
\* validated, and the error it returns with instead of calling the engine
buildAndDeploy(targets) == ValidateTargets(targets)

\* lines 111-112, 116-124: buildAndDeploy validates the targets; on the first
\* error it returns that error with an empty result set, which line 112
\* dispatches; otherwise it calls the build engine
TaskBuildAndDeploy(k) ==
    /\ k \in DOMAIN tasks
    /\ tasks[k].pc = "buildAndDeploy"
    /\ LET v == buildAndDeploy(tasks[k].entry.targets)
       IN IF v.err # NoError
          THEN /\ tasks' = [tasks EXCEPT ![k].validated = v.validated,
                                         ![k].pc = "done"]
               /\ DispatchBuildComplete(k, EmptyResultSet, v.err)
          ELSE /\ tasks' = [tasks EXCEPT ![k].validated = v.validated,
                                         ![k].engineCalls = @ + 1,
                                         ![k].pc = "engine"]
               /\ UNCHANGED <<dispatched, queue>>
    /\ UNCHANGED <<controller, engineState, asm>>

\* the build engine logs through the ctx it was given while BuildAndDeploy runs
TaskEngineLog(k) ==
    /\ k \in DOMAIN tasks
    /\ tasks[k].pc = "engine"
    /\ tasks[k].engineLogs < MaxEngineLogs
    /\ Write([manifestName |-> tasks[k].entry.name, spanID |-> tasks[k].entry.spanID],
             <<"engine output">>)
    /\ tasks' = [tasks EXCEPT ![k].engineLogs = @ + 1]
    /\ UNCHANGED <<controller, engineState, asm>>

\* lines 124, 111-112: c.b.BuildAndDeploy returns and its outcome is dispatched
TaskEngineReturn(k) ==
    /\ k \in DOMAIN tasks
    /\ tasks[k].pc = "engine"
    /\ \E out \in EngineOutcomes(tasks[k].entry.targets) :
           DispatchBuildComplete(k, out.result, out.err)
    /\ tasks' = [tasks EXCEPT ![k].pc = "done"]
    /\ UNCHANGED <<controller, engineState, asm>>

\* ------------------------------------------------------------ the controller
\* called between two calls of OnChange: the flag is read only as OnChange starts
DisableForTesting ==
    /\ pc = "idle"
    /\ ~disabledForTesting
    /\ disabledForTesting' = TRUE
    /\ UNCHANGED <<buildsStartedCount, pc, entry, ok, mt, rlocked, engineState,
                   dispatched, queue, tasks, asm>>

\* the orders in which the range statements of buildStateSet may yield the
\* pending files of a manifest state
IterationOrders(ms) ==
    Orders(UNION {DOMAIN ms.BuildStatuses[id].PendingFileChanges : id \in DOMAIN ms.BuildStatuses})

\* lines 83-87 and 40: OnChange is called; when disabled it returns at once (a
\* step that changes nothing), otherwise it enters needsBuild and takes the
\* read lock
OnChangeRLockState ==
    /\ pc = "idle"
    /\ ~disabledForTesting
    /\ rlocked' = TRUE
    /\ pc' = "needsBuild"
    /\ UNCHANGED <<buildsStartedCount, disabledForTesting, entry, ok, mt, engineState,
                   dispatched, queue, tasks, asm>>

OnChangeNeedsBuildKeepsLockOnAdmission ==
    /\ pc = "needsBuild"
    /\ \E answer \in NextTargetToBuild(engineState) :
         \E order \in IF answer = Nil THEN {<<>>} ELSE IterationOrders(answer.State) :
           LET r == needsBuild(buildsStartedCount, engineState, answer, order)
           IN /\ buildsStartedCount' = r.count
              /\ entry' = r.entry
              /\ ok' = r.ok
              /\ mt' = r.mt
              /\ rlocked' = r.ok
    /\ pc' = "returned"
    /\ UNCHANGED <<disabledForTesting, engineState, dispatched, queue, tasks, asm>>

\* lines 41-77: the body of needsBuild on the engine state it holds the read
\* lock of, and the deferred RUnlockState as it returns
OnChangeNeedsBuild ==
    /\ pc = "needsBuild"
    /\ \E answer \in NextTargetToBuild(engineState) :
         \E order \in IF answer = Nil THEN {<<>>} ELSE IterationOrders(answer.State) :
           LET r == needsBuild(buildsStartedCount, engineState, answer, order)
           IN /\ buildsStartedCount' = r.count
              /\ entry' = r.entry
              /\ ok' = r.ok
              /\ mt' = r.mt
    /\ rlocked' = FALSE
    /\ pc' = "returned"
    /\ UNCHANGED <<disabledForTesting, engineState, dispatched, queue, tasks, asm>>

\* OnChange returns: its locals are gone
Return ==
    /\ pc' = "idle"
    /\ entry' = EmptyEntry
    /\ ok' = FALSE
    /\ mt' = NotAsked
    /\ UNCHANGED <<buildsStartedCount, disabledForTesting, rlocked>>

OnChangeLaunchGoFirst ==
    \/ /\ pc = "returned"
       /\ ~ok
       /\ Return
       /\ UNCHANGED <<engineState, dispatched, queue, tasks, asm>>
    \/ /\ pc = "returned"
       /\ ok
       /\ tasks' = Append(tasks, NewTask(entry))
       /\ pc' = "go"
       /\ UNCHANGED <<buildsStartedCount, disabledForTesting, entry, ok, mt, rlocked,
                      engineState, dispatched, queue, asm>>
    \/ /\ pc = "go"
       /\ Dispatch(BuildStartedAction(entry))
       /\ Return
       /\ UNCHANGED <<engineState, tasks, asm>>

OnChangeLaunchWaitsForBuild ==
    \/ /\ pc = "returned"
       /\ ~ok
       /\ Return
       /\ UNCHANGED <<engineState, dispatched, queue, tasks, asm>>
    \/ /\ pc = "returned"
       /\ ok
       /\ Dispatch(BuildStartedAction(entry))
       /\ pc' = "go"
       /\ UNCHANGED <<buildsStartedCount, disabledForTesting, entry, ok, mt, rlocked,
                      engineState, tasks, asm>>
    \/ /\ pc = "go"
       /\ tasks' = Append(tasks, NewTask(entry))
       /\ pc' = "wait"
       /\ UNCHANGED <<buildsStartedCount, disabledForTesting, entry, ok, mt, rlocked,
                      engineState, dispatched, queue, asm>>
    \/ /\ pc = "wait"
       /\ tasks[Len(tasks)].pc = "done"
       /\ Return
       /\ UNCHANGED <<engineState, dispatched, queue, tasks, asm>>

\* lines 88-114: the rest of OnChange: return when not admitted; otherwise
\* dispatch BuildStarted, then start the build goroutine and return
OnChangeLaunch ==
    \/ /\ pc = "returned"
       /\ ~ok
       /\ Return
       /\ UNCHANGED <<engineState, dispatched, queue, tasks, asm>>
    \/ /\ pc = "returned"
       /\ ok
       /\ Dispatch(BuildStartedAction(entry))
       /\ pc' = "go"
       /\ UNCHANGED <<buildsStartedCount, disabledForTesting, entry, ok, mt, rlocked,
                      engineState, tasks, asm>>
    \/ /\ pc = "go"
       /\ tasks' = Append(tasks, NewTask(entry))
       /\ Return
       /\ UNCHANGED <<engineState, dispatched, queue, asm>>

\* ------------------------------------------------------------------ the store
\* The store applies the dispatched actions one at a time, in the order they
\* were dispatched, under its write lock: BuildStarted counts the build and
\* occupies a slot, BuildComplete frees the slot.
StoreApply ==
    /\ ~rlocked
    /\ queue # <<>>
    /\ LET a == Head(queue)
       IN engineState' =
              IF a.type = "BuildStarted"
              THEN [engineState EXCEPT !.StartedBuildCount = @ + 1,
                                       !.CurrentlyBuilding = @ \cup {a.SpanID}]
              ELSE IF a.type = "BuildComplete"
              THEN [engineState EXCEPT !.CurrentlyBuilding = @ \ {a.SpanID}]
              ELSE engineState
    /\ queue' = Tail(queue)
    /\ UNCHANGED <<controller, dispatched, tasks, asm>>

NoAssembly == [called |-> FALSE]

Init ==
    /\ buildsStartedCount = 0
    /\ disabledForTesting = FALSE
    /\ pc = "idle"
    /\ entry = EmptyEntry
    /\ ok = FALSE
    /\ mt = NotAsked
    /\ rlocked = FALSE
    /\ \E slots \in 1..MaxBuildSlots :
           engineState = [StartedBuildCount |-> 0, CurrentlyBuilding |-> {},
                          MaxParallelUpdates |-> slots]
    /\ dispatched = <<>>
    /\ queue = <<>>
    /\ tasks = <<>>
    /\ asm = NoAssembly

Next ==
    \/ DisableForTesting
    \/ OnChangeRLockState
    \/ OnChangeNeedsBuild
    \/ OnChangeLaunch
    \/ StoreApply
    \/ \E k \in DOMAIN tasks : TaskLogBuildEntry(k)
    \/ \E k \in DOMAIN tasks : TaskBuildAndDeploy(k)
    \/ \E k \in DOMAIN tasks : TaskEngineLog(k)
    \/ \E k \in DOMAIN tasks : TaskEngineReturn(k)

Spec == Init /\ [][Next]_vars

\* A running OnChange call goes on to its end, every build goroutine is
\* scheduled, and every call of the build engine returns.
Fairness ==
    /\ WF_vars(OnChangeNeedsBuild)
    /\ WF_vars(OnChangeLaunch)
    /\ \A k \in 1..MaxBuilds :
           /\ WF_vars(TaskLogBuildEntry(k))
           /\ WF_vars(TaskBuildAndDeploy(k))
           /\ WF_vars(TaskEngineReturn(k))

FairSpec == Spec /\ Fairness

\* OnChange is scheduled, whatever becomes of the build goroutines and of the
\* build engine's calls
OnChangeFairness == WF_vars(OnChangeNeedsBuild) /\ WF_vars(OnChangeLaunch)

OnChangeFairSpec == Spec /\ OnChangeFairness

\* ------------------------------------------- buildStateSet on bounded inputs
ImageA == TargetSpec(TargetTypeImage, "img-a", NoError)
ImageB == TargetSpec(TargetTypeImage, "img-b", NoError)

\* the manifests buildStateSet is applied to: Kubernetes with one and with two
\* images, docker-compose with one image, local without images
AssembleManifests ==
    {[Name |-> "k1", ImageTargets |-> <<ImageA>>, Deploy |-> TargetTypeK8s,
      DeployValidateErr |-> NoError],
     [Name |-> "k2", ImageTargets |-> <<ImageA, ImageB>>, Deploy |-> TargetTypeK8s,
      DeployValidateErr |-> NoError],
     [Name |-> "dc", ImageTargets |-> <<ImageA>>, Deploy |-> TargetTypeDockerCompose,
      DeployValidateErr |-> NoError],
     [Name |-> "loc", ImageTargets |-> <<>>, Deploy |-> TargetTypeLocal,
      DeployValidateErr |-> NoError]}

\* the maps from file path to change time with at most n entries
PendingMaps(n) ==
    UNION {[S -> 1..MaxTime] : S \in {T \in SUBSET Files : Cardinality(T) <= n}}

\* the IDs of the targets of a manifest that take part in buildStateSet's loop
ParticipatingIDs(manifest) ==
    {t.ID : t \in {x \in SeqToSet(buildTargets(manifest)) :
                      x.ID.Type \in {TargetTypeImage, TargetTypeDockerCompose, TargetTypeLocal}}}

TargetIDs(manifest) == {t.ID : t \in SeqToSet(buildTargets(manifest))}

\* the pending changes of the targets ids, n in all over those that are not a
\* Kubernetes deploy target; a Kubernetes deploy target has none or one
RECURSIVE PendingAssignments(_, _)
PendingAssignments(ids, n) ==
    IF ids = {} THEN {<<>>}
    ELSE LET id == CHOOSE x \in ids : TRUE
             maps == IF id.Type = TargetTypeK8s
                     THEN {<<>>, [f \in {FileNames[1]} |-> MaxTime]}
                     ELSE PendingMaps(n)
             Used(m) == IF id.Type = TargetTypeK8s THEN 0 ELSE Cardinality(DOMAIN m)
         IN UNION {{[k \in ids |-> IF k = id THEN m ELSE rest[k]] :
                       rest \in PendingAssignments(ids \ {id}, n - Used(m))} : m \in maps}

\* pending changes per target of the manifest, MaxPending in all; a Kubernetes
\* deploy target has none or one
PendingChoices(manifest) == PendingAssignments(TargetIDs(manifest), MaxPending)

LookupOutcomes(name) ==
    {[cInfos |-> {}, err |-> "no pod for image"],
     [cInfos |-> {<<"container of", name>>}, err |-> NoError]}

\* the manifest states buildStateSet is applied to
ManifestStates(manifest) ==
    LET names == {manifest.ImageTargets[i].ID.Name : i \in DOMAIN manifest.ImageTargets}
    IN {[StartedFirstBuild |-> last # NoTime,
         LastBuildStartTime |-> last,
         NeedsRebuildFromCrash |-> crash,
         ConfigFilesThatCausedChange |-> <<>>,
         BuildStatuses |-> [id \in TargetIDs(manifest) |->
                               [PendingFileChanges |-> p[id],
                                LastSuccessfulResult |->
                                    IF last # NoTime THEN "built" ELSE "nil"]],
         K8sRuntime |-> k8s,
         DCRuntime |-> dc] :
            last \in {NoTime} \cup 1..MaxTime, crash \in BOOLEAN, p \in PendingChoices(manifest),
            k8s \in IF IsK8s(manifest)
                    THEN {f \in [names -> UNION {LookupOutcomes(n) : n \in names}] :
                             \A n \in names : f[n] \in LookupOutcomes(n)}
                    ELSE {[n \in names |-> [cInfos |-> {}, err |-> NoError]]},
            dc \in IF IsDC(manifest) THEN {{}, {"compose container"}} ELSE {{}}}

AssembleInit ==
    /\ buildsStartedCount = 0
    /\ disabledForTesting = FALSE
    /\ pc = "idle"
    /\ entry = EmptyEntry
    /\ ok = FALSE
    /\ mt = NotAsked
    /\ rlocked = FALSE
    /\ engineState = [StartedBuildCount |-> 0, CurrentlyBuilding |-> {},
                      MaxParallelUpdates |-> 1]
    /\ dispatched = <<>>
    /\ queue = <<>>
    /\ tasks = <<>>
    /\ \E manifest \in AssembleManifests :
         \E ms \in ManifestStates(manifest) :
           asm = [called |-> FALSE, manifest |-> manifest, ms |-> ms]

\* buildStateSet(ctx, manifest, buildTargets(manifest), ms), as needsBuild calls
\* it, with the range statements yielding the pending files in some order
Assemble ==
    /\ ~asm.called
    /\ \E order \in IterationOrders(asm.ms) :
           asm' = [called |-> TRUE, manifest |-> asm.manifest, ms |-> asm.ms,
                   order |-> order,
                   result |-> buildStateSet(asm.manifest, buildTargets(asm.manifest),
                                            asm.ms, order)]
    /\ UNCHANGED <<controller, engineState, dispatched, queue, tasks>>

AssembleNext == Assemble

AssembleSpec == AssembleInit /\ [][AssembleNext]_vars

\* ------------------------------------------------------------- properties
\* the step in which needsBuild returns
NeedsBuildReturns == pc = "needsBuild" /\ pc' = "returned"

\* C1: needsBuild never admits a build when buildsStartedCount differs from the
\* StartedBuildCount of the engine state it reads, whatever the slots and
\* whatever the oracle would answer: it returns no entry and not-admitted.
C1_NoAdmissionOnCountMismatch ==
    [][(NeedsBuildReturns /\ buildsStartedCount # engineState.StartedBuildCount)
          => (~ok' /\ entry' = EmptyEntry)]_vars

\* needsBuild has declined on a count mismatch (the store's count never passes
\* the controller's, so the counts differed when it read them) with a slot free
C1_Witness ==
    /\ pc = "returned" /\ ~ok /\ mt = NotAsked
    /\ buildsStartedCount # engineState.StartedBuildCount
    /\ AvailableBuildSlots(engineState) >= 1

\* C2: needsBuild never admits a build when the engine state it reads has no
\* available build slot, even when the counts are equal and the oracle has a
\* candidate.
C2_NoAdmissionWithoutSlot ==
    [][(NeedsBuildReturns /\ AvailableBuildSlots(engineState) < 1)
          => (~ok' /\ entry' = EmptyEntry)]_vars

\* needsBuild runs on a state with equal counts, no free slot, and candidates
\* the oracle may answer with
C2_Witness ==
    /\ pc = "needsBuild" /\ rlocked
    /\ buildsStartedCount = engineState.StartedBuildCount
    /\ AvailableBuildSlots(engineState) < 1
    /\ NextTargetToBuild(engineState) # {Nil}

\* the BuildStarted actions the store has yet to apply
UnappliedStarts == {i \in DOMAIN queue : queue[i].type = "BuildStarted"}

\* C3: no double admission: the controller's count is the store's count or one
\* more, and it is one more exactly while the BuildStarted action of the last
\* admission is about to be dispatched or waits to be applied; so no build is
\* admitted before the store applied the BuildStarted of the one before.
C3_NoDoubleAdmission ==
    /\ buildsStartedCount - engineState.StartedBuildCount \in {0, 1}
    /\ Cardinality(UnappliedStarts) + (IF pc = "returned" /\ ok THEN 1 ELSE 0)
           = buildsStartedCount - engineState.StartedBuildCount

\* a second build is admitted, the first one applied and still running
C3_Witness ==
    /\ buildsStartedCount = 2
    /\ engineState.StartedBuildCount = 1
    /\ pc = "returned" /\ ok
    /\ Len(tasks) = 1 /\ tasks[1].pc # "done"

Types(s) == [i \in DOMAIN dispatched[s] |-> dispatched[s][i].type]

\* C4: of the actions carrying one span ID, every LogWritten and the
\* BuildComplete were dispatched after a BuildStarted.
C4_StartedBeforeLogsAndComplete ==
    \A s \in DOMAIN dispatched :
        \A j \in DOMAIN dispatched[s] :
            dispatched[s][j].type \in {"LogWritten", "BuildComplete"}
                => \E i \in 1..(j - 1) : dispatched[s][i].type = "BuildStarted"

\* two builds ran at the same time: the second is complete, with the engine's
\* log line, while the first is still in the build engine
C4_Witness ==
    /\ Len(tasks) = 2
    /\ tasks[1].pc = "engine" /\ tasks[2].pc = "done"
    /\ tasks[2].entry.spanID \in DOMAIN dispatched
    /\ Types(tasks[2].entry.spanID)
           = <<"BuildStarted", "LogWritten", "LogWritten", "BuildComplete">>
    /\ Len(dispatched[tasks[1].entry.spanID]) >= 2

\* the places in the actions dispatched with span ID s that hold a given type
Places(s, type) ==
    IF s \in DOMAIN dispatched
    THEN {i \in DOMAIN dispatched[s] : dispatched[s][i].type = type}
    ELSE {}

StartedDispatched(n) == Places(SpanIDForBuildLog(n), "BuildStarted") # {}
CompleteDispatched(n) == Places(SpanIDForBuildLog(n), "BuildComplete") # {}

\* C5: every admitted build is completed exactly once: a BuildComplete is
\* dispatched at most once per span ID, only after the BuildStarted with that
\* span ID, and names the same manifest; and, goroutines being scheduled and
\* the build engine returning, every BuildStarted is followed by its BuildComplete.
C5_CompletedExactlyOnce ==
    /\ [](\A s \in DOMAIN dispatched :
             /\ Cardinality(Places(s, "BuildComplete")) <= 1
             /\ \A j \in Places(s, "BuildComplete") :
                    \E i \in Places(s, "BuildStarted") :
                        /\ i < j
                        /\ dispatched[s][i].ManifestName = dispatched[s][j].ManifestName
                        /\ dispatched[s][i].SpanID = dispatched[s][j].SpanID)
    /\ \A n \in 1..MaxBuilds : StartedDispatched(n) ~> CompleteDispatched(n)

\* two builds are complete, one with the build engine's error and one with its result
C5_Witness ==
    /\ Len(tasks) = 2
    /\ CompleteDispatched(1) /\ CompleteDispatched(2)
    /\ \E j \in Places(SpanIDForBuildLog(1), "BuildComplete") :
           dispatched[SpanIDForBuildLog(1)][j].Error = "build failed"
    /\ \E j \in Places(SpanIDForBuildLog(2), "BuildComplete") :
           dispatched[SpanIDForBuildLog(2)][j].Error = NoError

\* the places of the targets that fail Validate
Invalid(targets) == {i \in DOMAIN targets : targets[i].ValidateErr # NoError}

FirstInvalid(targets) == CHOOSE i \in Invalid(targets) : \A j \in Invalid(targets) : i <= j

\* C6: when a target of an admitted build fails Validate, the build engine is
\* never called for that build, Validate is called on the targets up to the
\* first failing one and on no later one, and the build's BuildComplete carries
\* the first validation error and an empty result set.
C6_ValidationFailure ==
    \A k \in DOMAIN tasks :
        LET t == tasks[k]
            targets == t.entry.targets
            s == t.entry.spanID
        IN Invalid(targets) # {} =>
             /\ t.engineCalls = 0
             /\ t.pc \in {"log", "buildAndDeploy", "done"}
             /\ t.pc \in {"log", "buildAndDeploy"} => t.validated = <<>> /\ Places(s, "BuildComplete") = {}
             /\ t.pc = "done" =>
                  /\ t.validated = [i \in 1..FirstInvalid(targets) |-> targets[i].ID]
                  /\ Places(s, "BuildComplete") # {}
                  /\ \A j \in Places(s, "BuildComplete") :
                         /\ dispatched[s][j].Error = targets[FirstInvalid(targets)].ValidateErr
                         /\ dispatched[s][j].Result = EmptyResultSet

\* a build whose second and third targets are invalid is complete
C6_Witness ==
    \E k \in DOMAIN tasks :
        /\ tasks[k].pc = "done"
        /\ Invalid(tasks[k].entry.targets) = {2, 3}
        /\ Len(tasks[k].validated) = 2
        /\ Places(tasks[k].entry.spanID, "BuildComplete") # {}

\* what a call of OnChange that admits nothing must leave as it is
Untouched ==
    /\ buildsStartedCount' = buildsStartedCount
    /\ disabledForTesting' = disabledForTesting
    /\ dispatched' = dispatched
    /\ queue' = queue
    /\ tasks' = tasks
    /\ engineState' = engineState

\* C7: a declined admission is a silent no-op: when a guard of needsBuild fails
\* (count mismatch, no free slot, no candidate from the oracle) it returns
\* not-admitted, and a call of OnChange in which needsBuild returns not-admitted
\* dispatches nothing, starts no task and leaves buildsStartedCount as it was,
\* up to its return.
C7_DeclineIsNoOp ==
    [][/\ (NeedsBuildReturns
             /\ (\/ buildsStartedCount # engineState.StartedBuildCount
                 \/ AvailableBuildSlots(engineState) < 1
                 \/ mt' = Nil))
          => ~ok'
       /\ (NeedsBuildReturns /\ ~ok') => (Untouched /\ entry' = EmptyEntry)
       /\ (pc = "returned" /\ ~ok /\ pc' # pc) => (Untouched /\ pc' = "idle")]_vars

\* OnChange is back from a call in which the oracle had no candidate, with a
\* build running and nothing left to apply
C7_Witness ==
    /\ pc = "returned" /\ ~ok /\ mt = Nil
    /\ Len(tasks) = 1 /\ tasks[1].pc = "engine"
    /\ queue = <<>>

\* the pending file changes of a target in the manifest state buildStateSet was given
PendingOf(id) == BuildStatus(asm.ms, id).PendingFileChanges

\* C8: for a manifest state with NeedsRebuildFromCrash, every build state of
\* the set has no running containers, no running-container error and no
\* force update, also when no file changed.
C8_CrashRebuildState ==
    (asm.called /\ asm.ms.NeedsRebuildFromCrash) =>
        \A id \in DOMAIN asm.result :
            /\ asm.result[id].RunningContainers = {}
            /\ asm.result[id].RunningContainerError = NoError
            /\ ~asm.result[id].NeedsForceUpdate

\* a crash rebuild of a docker-compose manifest with running containers and
\* no pending file change
C8_Witness ==
    /\ asm.called /\ asm.ms.NeedsRebuildFromCrash
    /\ IsDC(asm.manifest) /\ asm.ms.DCRuntime # {}
    /\ Cardinality(DOMAIN asm.result) = 2
    /\ \A id \in TargetIDs(asm.manifest) : PendingOf(id) = <<>>

\* C9: without NeedsRebuildFromCrash and with no pending file change on any
\* target that takes part, every build state of the set has the force update.
C9_ForceUpdateWithoutChanges ==
    (/\ asm.called
     /\ ~asm.ms.NeedsRebuildFromCrash
     /\ \A id \in ParticipatingIDs(asm.manifest) : PendingOf(id) = <<>>) =>
        \A id \in DOMAIN asm.result : asm.result[id].NeedsForceUpdate

\* a Kubernetes manifest with two images and nothing pending on them, while its
\* deploy target, which takes no part, has a pending change
C9_Witness ==
    /\ asm.called /\ ~asm.ms.NeedsRebuildFromCrash
    /\ IsK8s(asm.manifest)
    /\ Cardinality(DOMAIN asm.result) = 2
    /\ \A id \in ParticipatingIDs(asm.manifest) : PendingOf(id) = <<>>
    /\ \E id \in TargetIDs(asm.manifest) : PendingOf(id) # <<>>
    /\ \A id \in DOMAIN asm.result : asm.result[id].NeedsForceUpdate

\* C10: the changed files of every build state are the keys of the target's
\* pending file changes, each once, in ascending bytewise order, whatever order
\* the map was ranged over in.
C10_FilesChangedSorted ==
    asm.called =>
        \A id \in DOMAIN asm.result :
            LET files == asm.result[id].FilesChanged
            IN /\ SeqToSet(files) = DOMAIN PendingOf(id)
               /\ Len(files) = Cardinality(DOMAIN PendingOf(id))
               /\ \A i, j \in DOMAIN files : i < j => StringLess(files[i], files[j])

\* a target's two pending files were ranged over in descending order, one name
\* being a prefix of the other
C10_Witness ==
    /\ asm.called
    /\ \E id \in DOMAIN asm.result :
           /\ asm.result[id].FilesChanged = <<FileNames[2], FileNames[3]>>
           /\ RangeKeys(PendingOf(id), asm.order) = <<FileNames[3], FileNames[2]>>

\* C11: buildStateSet is deterministic: on the inputs of a call (manifest,
\* target specs, manifest state with its running-container lookups), whatever
\* order the pending file changes were ranged over in, the set the call returned
\* is the set a call ranging over them in ascending order returns; so any two
\* calls on these inputs return equal sets.
C11_AssembleDeterministic ==
    asm.called =>
        \E first \in IterationOrders(asm.ms) :
            /\ \A i, j \in DOMAIN first : i < j => StringLess(first[i], first[j])
            /\ buildStateSet(asm.manifest, buildTargets(asm.manifest), asm.ms, first)
                   = asm.result

\* a call on a docker-compose manifest whose image has two pending files, ranged
\* over in descending order, with a changed file since the last build
C11_Witness ==
    /\ asm.called /\ IsDC(asm.manifest)
    /\ Cardinality(IterationOrders(asm.ms)) = 2
    /\ \E id \in DOMAIN asm.result :
           /\ Len(asm.result[id].FilesChanged) = 2
           /\ RangeKeys(PendingOf(id), asm.order) # asm.result[id].FilesChanged
           /\ ~asm.result[id].NeedsForceUpdate

\* the builds admitted so far, in admission order: those whose goroutine was
\* launched, then the one OnChange holds between needsBuild and the launch
AdmittedEntries ==
    [k \in 1..Len(tasks) |-> tasks[k].entry]
        \o (IF (pc = "returned" /\ ok) \/ pc = "go" THEN <<entry>> ELSE <<>>)

\* the number of actions dispatched so far for the k-th admitted build
ActionsOf(k) ==
    IF k <= Len(tasks)
    THEN 1 + (IF tasks[k].pc = "log" THEN 0 ELSE 1) + tasks[k].engineLogs
           + (IF tasks[k].pc = "done" THEN 1 ELSE 0)
    ELSE IF pc = "go" THEN 1 ELSE 0

\* C12: the k-th admitted build has the span ID "build:k", k being
\* buildsStartedCount after its admission (fewer than ten builds: one digit);
\* the span IDs of distinct builds differ and grow with the admission order;
\* and the BuildStarted, every LogWritten and the BuildComplete of a build are
\* dispatched with its span ID and manifest name, and no action with another.
C12_SpanIdentifiers ==
    /\ buildsStartedCount = Len(AdmittedEntries)
    /\ \A k \in DOMAIN AdmittedEntries : AdmittedEntries[k].spanID = <<"build:", k>>
    /\ \A i, j \in DOMAIN AdmittedEntries :
           i < j => /\ AdmittedEntries[i].spanID # AdmittedEntries[j].spanID
                    /\ AdmittedEntries[i].spanID[2] < AdmittedEntries[j].spanID[2]
    /\ DOMAIN dispatched \subseteq {AdmittedEntries[k].spanID : k \in DOMAIN AdmittedEntries}
    /\ \A k \in DOMAIN AdmittedEntries :
           LET s == AdmittedEntries[k].spanID
               acts == IF s \in DOMAIN dispatched THEN dispatched[s] ELSE <<>>
           IN /\ Len(acts) = ActionsOf(k)
              /\ \A i \in DOMAIN acts :
                     /\ acts[i].SpanID = s
                     /\ acts[i].ManifestName = AdmittedEntries[k].name

\* the second build is admitted and started while the first, of another
\* manifest, has logged twice and completed
C12_Witness ==
    /\ pc = "go" /\ Len(tasks) = 1 /\ buildsStartedCount = 2
    /\ entry.spanID = <<"build:", 2>>
    /\ tasks[1].pc = "done" /\ tasks[1].engineLogs = 1
    /\ tasks[1].entry.name # entry.name
    /\ Len(dispatched[<<"build:", 1>>]) = 4
    /\ Len(dispatched[<<"build:", 2>>]) = 1

\* C13: OnChange never waits for a build: once it is past the disabled check
\* its next step is enabled whatever the build goroutines are doing, and with
\* OnChange scheduled (and no assumption that a goroutine advances or that the
\* build engine ever returns) every call of OnChange returns.
C13_OnChangeNeverWaits ==
    /\ [](pc # "idle" => ENABLED (OnChangeNeedsBuild \/ OnChangeLaunch))
    /\ []<>(pc = "idle")

\* OnChange has returned from two calls that each admitted a build, and both
\* builds are still inside the build engine
C13_Witness ==
    /\ pc = "idle"
    /\ Len(tasks) = 2
    /\ tasks[1].pc = "engine" /\ tasks[2].pc = "engine"
    /\ buildsStartedCount = 2

\* the manifest target the oracle handed out for an admitted entry
TargetOf(e) == CHOOSE c \in Candidates : c.Manifest.Name = e.name

\* the summary line the rule asks for: the format string with its arguments
SummaryLine(e) ==
    LET c == TargetOf(e)
        n == Len(e.filesChanged)
    IN IF ~c.State.StartedFirstBuild
       THEN <<"Initial Build %s %s", "U+2022", c.Manifest.Name>>
       ELSE IF n > 0
       THEN <<"%d %s Changed: %s %s %s", n, IF n = 1 THEN "File" ELSE "Files",
              FormatFileChangeList(e.filesChanged), "U+2022", c.Manifest.Name>>
       ELSE <<"%s %s %s", c.Reason, "U+2022", c.Manifest.Name>>

\* the places under span ID s of the log lines other than the build engine's
SummaryPlaces(s) ==
    {i \in Places(s, "LogWritten") : dispatched[s][i].Bytes # <<"engine output">>}

InFlight == {k \in DOMAIN tasks : tasks[k].pc # "done"}

\* C15: with a store that occupies a slot as it applies BuildStarted and frees
\* it as it applies the matching BuildComplete, the builds launched that have
\* not yet dispatched BuildComplete never outnumber the store's build slots,
\* the build OnChange is about to launch included.
C15_BoundedBySlots ==
    Cardinality(InFlight) + (IF pc = "go" THEN 1 ELSE 0) <= engineState.MaxParallelUpdates

\* with a single slot, OnChange is about to launch a second build, the first one
\* having completed and its completion applied
C15_Witness ==
    /\ engineState.MaxParallelUpdates = 1
    /\ pc = "go"
    /\ Len(tasks) = 1 /\ tasks[1].pc = "done"
    /\ engineState.CurrentlyBuilding = {}

\* C16: the read lock is held exactly while OnChange is inside needsBuild and
\* is released as needsBuild returns, admitted or not; OnChange dispatches
\* nothing and launches no goroutine while it is held; the engine state changes only
\* as the store applies a dispatched action; and buildsStartedCount is written
\* only by the step that holds the read lock.
C16_ReadLockDiscipline ==
    /\ [](rlocked <=> pc = "needsBuild")
    /\ [][/\ NeedsBuildReturns => (rlocked /\ ~rlocked')
          /\ (pc' # pc /\ (dispatched' # dispatched \/ Len(tasks') # Len(tasks)))
                 => (~rlocked /\ ~rlocked')
          /\ engineState' # engineState
                 => (~rlocked /\ queue # <<>> /\ queue' = Tail(queue))
          /\ buildsStartedCount' # buildsStartedCount => rlocked]_vars

\* OnChange has dispatched the BuildStarted of a second build, lock released,
\* while the first build's BuildComplete waits to be applied
C16_Witness ==
    /\ pc = "go" /\ ~rlocked
    /\ Len(queue) = 2
    /\ queue[1].type = "BuildComplete" /\ queue[2].type = "BuildStarted"
    /\ buildsStartedCount = 2

\* the types of target that get a build state
BuildStateTypes == {TargetTypeImage, TargetTypeDockerCompose, TargetTypeLocal}

\* C17: the keys of the set buildStateSet returns are exactly the IDs of the
\* given target specs whose type is image, docker-compose or local.
C17_KeySet ==
    asm.called =>
        LET specs == buildTargets(asm.manifest)
        IN /\ \A i \in DOMAIN specs :
                  specs[i].ID \in DOMAIN asm.result <=> specs[i].ID.Type \in BuildStateTypes
           /\ \A id \in DOMAIN asm.result : \E i \in DOMAIN specs : specs[i].ID = id

\* a Kubernetes manifest with two images whose deploy target has a pending change
C17_Witness ==
    /\ asm.called /\ IsK8s(asm.manifest)
    /\ Len(buildTargets(asm.manifest)) = 3
    /\ Cardinality(DOMAIN asm.result) = 2
    /\ PendingOf(DeployTarget(asm.manifest).ID) # <<>>

\* the call was made on a manifest state that is not crash-flagged and has no
\* finished build
NeverBuiltNoCrash ==
    asm.called /\ ~asm.ms.NeedsRebuildFromCrash /\ LastBuildEmpty(asm.ms)

\* C18 as stated: for a manifest that is not crash-flagged and for which no
\* build has ever completed, no build state has the force update, whether or
\* not there are pending file changes.
C18_NeverBuiltNeverForced ==
    NeverBuiltNoCrash => \A id \in DOMAIN asm.result : ~asm.result[id].NeedsForceUpdate

\* C18, amended: the absence of a finished build counts only for a pending
\* change that is ranged over; so for a manifest that is not crash-flagged and
\* for which no build has ever completed, no build state has the force update
\* when some target that takes part has a pending file change, and every build
\* state has it when none has.
C18_NeverBuiltForcedIffNothingPending ==
    NeverBuiltNoCrash =>
        \A id \in DOMAIN asm.result :
            asm.result[id].NeedsForceUpdate
                <=> (\A p \in ParticipatingIDs(asm.manifest) : PendingOf(p) = <<>>)

\* never built, not crash-flagged: one of two images has a pending change and
\* neither build state has the force update
C18_Witness ==
    /\ NeverBuiltNoCrash
    /\ Cardinality(DOMAIN asm.result) = 2
    /\ \E p, q \in DOMAIN asm.result : PendingOf(p) # <<>> /\ PendingOf(q) = <<>>
    /\ \A id \in DOMAIN asm.result : ~asm.result[id].NeedsForceUpdate

\* the manifest state of the call with the lookup for image `name` having the
\* outcome r instead
WithLookup(name, r) == [asm.ms EXCEPT !.K8sRuntime[name] = r]

\* C19: for a Kubernetes manifest that is not crash-flagged, a failing
\* running-container lookup does not stop buildStateSet: every target that takes
\* part has a build state; an image whose lookup failed has the error and no
\* containers, an image whose lookup succeeded has its containers and no error;
\* and the build states of the other targets are what they are whatever the
\* outcome of that image's lookup.
C19_LookupFailureNonFatal ==
    (asm.called /\ IsK8s(asm.manifest) /\ ~asm.ms.NeedsRebuildFromCrash) =>
        /\ DOMAIN asm.result = ParticipatingIDs(asm.manifest)
        /\ \A id \in DOMAIN asm.result :
               LET r == asm.ms.K8sRuntime[id.Name]
               IN /\ r.err # NoError =>
                         /\ asm.result[id].RunningContainerError = r.err
                         /\ asm.result[id].RunningContainers = {}
                  /\ r.err = NoError =>
                         /\ asm.result[id].RunningContainerError = NoError
                         /\ asm.result[id].RunningContainers = r.cInfos
                  /\ \A other \in LookupOutcomes(id.Name) \ {r} :
                         LET again == buildStateSet(asm.manifest, buildTargets(asm.manifest),
                                                    WithLookup(id.Name, other), asm.order)
                         IN \A k \in DOMAIN asm.result \ {id} : again[k] = asm.result[k]

\* two images: the lookup failed for the one with a pending change and found a
\* container for the other
C19_Witness ==
    /\ asm.called /\ IsK8s(asm.manifest) /\ ~asm.ms.NeedsRebuildFromCrash
    /\ \E a, b \in DOMAIN asm.result :
           /\ asm.result[a].RunningContainerError = "no pod for image"
           /\ asm.result[a].FilesChanged # <<>>
           /\ asm.result[b].RunningContainers # {}
           /\ asm.result[b].RunningContainerError = NoError

\* some target that takes part has a pending change timestamped strictly after
\* the start of the last build
ChangeAfterLastBuild ==
    \E id \in ParticipatingIDs(asm.manifest) :
        \E f \in DOMAIN PendingOf(id) : PendingOf(id)[f] > asm.ms.LastBuildStartTime

\* there are pending changes on the targets that take part, all of them
\* timestamped at or before the start of the last build
StaleChangesOnly ==
    /\ \E id \in ParticipatingIDs(asm.manifest) : PendingOf(id) # <<>>
    /\ ~ChangeAfterLastBuild

AllForced == \A id \in DOMAIN asm.result : asm.result[id].NeedsForceUpdate
NoneForced == \A id \in DOMAIN asm.result : ~asm.result[id].NeedsForceUpdate

\* C20 as stated: every set has the force update on all build states or on
\* none; one pending change after the last build's start suppresses it on all;
\* pending changes all at or before the last build's start leave it set on all.
C20_AllOrNothing ==
    asm.called =>
        /\ AllForced \/ NoneForced
        /\ ChangeAfterLastBuild => NoneForced
        /\ StaleChangesOnly => AllForced

\* C20, amended: every set has the force update on all build states or on
\* none; one pending change after the last build's start suppresses it on all;
\* for a manifest that is not crash-flagged, pending changes all at or before
\* the last build's start leave it set on all.
C20_AllOrNothingUnlessCrash ==
    asm.called =>
        /\ AllForced \/ NoneForced
        /\ ChangeAfterLastBuild => NoneForced
        /\ (StaleChangesOnly /\ ~asm.ms.NeedsRebuildFromCrash) => AllForced

\* not crash-flagged, two targets: the only pending change is timestamped with
\* the very start of the last build, and both build states have the force update
C20_Witness ==
    /\ asm.called /\ ~asm.ms.NeedsRebuildFromCrash
    /\ Cardinality(DOMAIN asm.result) = 2
    /\ StaleChangesOnly
    /\ \E id \in DOMAIN asm.result :
           \E f \in DOMAIN PendingOf(id) : PendingOf(id)[f] = asm.ms.LastBuildStartTime
    /\ \E id \in DOMAIN asm.result : asm.result[id].FilesChanged # <<>>
    /\ AllForced

====
